---- MODULE Spec2Model ----
(***************************************************************************)
(* A model of the spacemonkeygo/errors package: the symbol generator       *)
(* (GenSym), the error class tree (New / Is), annotated errors (wrap,      *)
(* Wrap, WrapUnless, New, NewWith), exit recording (Record, RecordBefore)  *)
(* and the queries (GetData, Contains).                                    *)
(*                                                                         *)
(* Go values are encoded as follows.                                       *)
(*   - an `error` interface value is an integer: 0 is nil, n > 0 is the    *)
(*     pointer to the n-th allocated *Error, n < 0 is a foreign error      *)
(*     value (a sentinel of package io, or a value of errors.New).         *)
(*   - a *ErrorClass is an integer: 0 is nil, n > 0 the n-th class.        *)
(*   - an interface{} stored in a data map is a string: "true" and "false" *)
(*     are the two bool values, "nil" is the nil interface, anything else  *)
(*     is a non-bool user value.                                           *)
(*   - a map[DataKey]interface{} is a function whose domain is the set of  *)
(*     keys present; a DataKey is the integer id it embeds.                *)
(***************************************************************************)
EXTENDS Integers, Sequences, FiniteSets, TLC

\* ------------------------------------------------------------------ bounds

\* Number of concurrent threads calling GenSym, and of calls they make.
MaxThreads == 3
MaxCalls == 4
\* Number of *Error values allocated in one run.
MaxErrs == 2
\* Number of exit frames recorded in one run.
MaxRecords == 2
\* Number of classes a program adds to the library's.
MaxClasses == 3
\* Number of non-nil errors added to a group before it is emptied.
MaxAdds == 3
\* Largest limit a bounded group is made with.
MaxLimit == 2

VARIABLES
    lastId,     \* the process-wide counter behind GenSym
    pc,         \* per thread: where it is inside GenSym
    wraps,      \* history: how often the counter has wrapped around
    reg,        \* per thread: the value its atomic add returned
    calls,      \* history: the number of GenSym calls made by the threads
    issued,     \* history: the DataKey ids returned so far, in return order
    classes,    \* the ErrorClass objects, by pointer
    errs,       \* the Error objects, by pointer
    logged,     \* history: the errors LogWithStack was called for
    built,      \* history: per class, the options it was built with
    given,      \* history: per Error, the options its wrap call was given
    recs,       \* history: per Error, the number of record calls on it
    ret,        \* the last call: its arguments and what it returned
    group,      \* the program's ErrorGroup: Errors, limit, excess
    adds,       \* history: the non-nil Adds since the group was last emptied
    text,       \* the text of the value fmt.Errorf made last
    lgroup,     \* the program's LoggingErrorGroup: name, total, failed
    lcount,     \* history: the Adds, and the non-nil Adds, since Finalize
    groupLog,   \* history: what the LoggingErrorGroup wrote to the logger
    panic,      \* the deferring function: is its deferred call pending, and
                \* the value of the panic unwinding it, if any
    slot,       \* the error variable CatchPanic is given the address of
    rpc,        \* per thread: where it is inside record
    rlocal      \* per thread: the error it records on, the exits slice it
                \* read and the frame it appends

symVars == <<lastId, wraps, pc, reg, calls, issued>>
coreVars == <<classes, errs, logged, built, given, recs, ret>>
groupVars == <<group, adds, text, lgroup, lcount, groupLog>>
panicVars == <<panic, slot>>
raceVars == <<rpc, rlocal>>
utilVars == <<groupVars, panicVars, raceVars>>
vars == <<lastId, wraps, pc, reg, calls, issued, classes, errs, logged, built,
          given, recs, ret, group, adds, text, lgroup, lcount, groupLog,
          panic, slot, rpc, rlocal>>

\* ---------------------------------------------------------- symbol generator

\* The width of the counter behind GenSym (lastId int32).
IdBits == 32

\* The largest and the smallest value of the counter's type.
MaxId == (2^(IdBits - 2) - 1) * 2 + 1
MinId == -MaxId - 1

\* A counter whose add is lost: the value read, not the sum.
AddInt32Lost(old, delta) == old

\* atomic.AddInt32(&lastId, delta) for delta >= 0: the new value, which
\* wraps around in two's complement.
AtomicAddInt32(old, delta) ==
    IF old > MaxId - delta
    THEN MinId + (old - (MaxId - delta)) - 1
    ELSE old + delta

\* The three keys the package issues for itself while it initialises.
logOnCreation == 1
captureStack == 2
disableInheritance == 3

\* ------------------------------------------------------------------- values

\* The nil interface{}.
Nil == "nil"

\* The nil error.
NilErr == 0

\* The foreign error values: -i is the i-th of these. Each has an identity,
\* a dynamic type and, by its method set, implements net.Error or not.
ForeignValues ==
    << [name |-> "io.EOF", type |-> "*errors.errorString", net |-> FALSE],
       [name |-> "io.ErrUnexpectedEOF", type |-> "*errors.errorString",
        net |-> FALSE],
       [name |-> "io.ErrClosedPipe", type |-> "*errors.errorString",
        net |-> FALSE],
       [name |-> "io.ErrNoProgress", type |-> "*errors.errorString",
        net |-> FALSE],
       [name |-> "io.ErrShortBuffer", type |-> "*errors.errorString",
        net |-> FALSE],
       [name |-> "io.ErrShortWrite", type |-> "*errors.errorString",
        net |-> FALSE],
       [name |-> "errors.New", type |-> "*errors.errorString", net |-> FALSE],
       [name |-> "", type |-> "*os.SyscallError", net |-> FALSE],
       [name |-> "", type |-> "syscall.Errno", net |-> TRUE],
       [name |-> "", type |-> "net.UnknownNetworkError", net |-> TRUE],
       [name |-> "", type |-> "*net.AddrError", net |-> TRUE],
       [name |-> "", type |-> "net.InvalidAddrError", net |-> TRUE],
       [name |-> "", type |-> "*net.OpError", net |-> TRUE],
       [name |-> "", type |-> "*net.ParseError", net |-> FALSE],
       [name |-> "", type |-> "*net.DNSError", net |-> TRUE],
       [name |-> "", type |-> "*net.DNSConfigError", net |-> TRUE],
       [name |-> "", type |-> "other net.Error", net |-> TRUE],
       [name |-> "BAD", type |-> "*errors.errorString", net |-> FALSE],
       [name |-> "MAD", type |-> "*errors.errorString", net |-> FALSE],
       [name |-> "SAD", type |-> "*errors.errorString", net |-> FALSE],
       [name |-> "%d", type |-> "*errors.errorString", net |-> FALSE] >>

Foreign == {-i : i \in DOMAIN ForeignValues}
IsForeign(err) == err < 0
IsError(err) == err > 0

\* Two foreign values by name: the end-of-file sentinel, and a value made
\* by errors.New or fmt.Errorf.
IoEOF == -1
PlainErr == -7

\* The values fmt.Errorf makes of the texts BAD, MAD and SAD, and one whose
\* text is a formatting verb.
BadErr == -18
MadErr == -19
SadErr == -20
VerbErr == SadErr - 1

\* The nil *ErrorClass.
NoClass == 0

\* map[DataKey]interface{}{}
EmptyMap == [k \in {} |-> Nil]

\* m[key] = value
MapSet(m, key, value) ==
    [k \in DOMAIN m \cup {key} |-> IF k = key THEN value ELSE m[k]]

\* m[key], which is nil for a key that is not present
MapGet(m, key) == IF key \in DOMAIN m THEN m[key] ELSE Nil

\* A delete that leaves the map as it is.
MapDeleteNothing(m, key) == m

\* delete(m, key)
MapDelete(m, key) == [k \in DOMAIN m \ {key} |-> m[k]]

\* ------------------------------------------------------------------ options

\* An ErrorOption is a closure that stores one entry into the map it is given.
SetData(key, value) == [key |-> key, value |-> value]

LogOnCreation == SetData(logOnCreation, "true")
CaptureStack == SetData(captureStack, "true")
NoLogOnCreation == SetData(logOnCreation, "false")
NoCaptureStack == SetData(captureStack, "false")
DisableInheritance == SetData(disableInheritance, "true")

\* for _, option := range options { option(m) }
RECURSIVE ApplyOptions(_, _)
ApplyOptions(m, options) ==
    IF options = <<>> THEN m
    ELSE ApplyOptions(MapSet(m, Head(options).key, Head(options).value),
                      Tail(options))

\* val.(bool) if val holds a bool, default_value otherwise
boolWrapper(val, default_value) ==
    IF val = "true" THEN TRUE
    ELSE IF val = "false" THEN FALSE
    ELSE default_value

\* ------------------------------------------------------------------ classes

SystemError == 1
HierarchicalError == 2

\* The two base classes, built by composite literals.
BaseClasses ==
    << [parent |-> NoClass, name |-> "System Error", data |-> EmptyMap],
       [parent |-> NoClass, name |-> "Error",
        data |-> MapSet(EmptyMap, captureStack, "true")] >>

\* A hoist in which the parent's entries replace the child's own.
HoistParentOver(own, parentData) ==
    [k \in DOMAIN own \cup DOMAIN parentData |->
        IF k \in DOMAIN parentData THEN parentData[k] ELSE own[k]]

\* The entries of the parent's map that the child's own options left unset,
\* added to the child's map ("hoist options for speed").
HoistParent(own, parentData) ==
    [k \in DOMAIN own \cup DOMAIN parentData |->
        IF k \in DOMAIN own THEN own[k] ELSE parentData[k]]

\* The entries of a class and of all its ancestors, the nearest first.
RECURSIVE AncestorData(_, _)
AncestorData(cls, c) ==
    IF cls[c].parent = NoClass THEN cls[c].data
    ELSE HoistParent(cls[c].data, AncestorData(cls, cls[c].parent))

\* A New that looks a missing key up along the whole chain of ancestors.
NewFromAncestors(cls, parent, name, options) ==
    LET p == IF parent = NoClass THEN HierarchicalError ELSE parent
        own == ApplyOptions(EmptyMap, options)
    IN  IF ~boolWrapper(MapGet(own, disableInheritance), FALSE)
        THEN [parent |-> p, name |-> name,
              data |-> HoistParent(own, AncestorData(cls, p))]
        ELSE [parent |-> p, name |-> name,
              data |-> MapDelete(own, disableInheritance)]

\* New(parent, name, options...) in the class table cls: the new ErrorClass.
New(cls, parent, name, options) ==
    LET p == IF parent = NoClass THEN HierarchicalError ELSE parent
        own == ApplyOptions(EmptyMap, options)
    IN  IF ~boolWrapper(MapGet(own, disableInheritance), FALSE)
        THEN [parent |-> p, name |-> name,
              data |-> HoistParent(own, cls[p].data)]
        ELSE [parent |-> p, name |-> name,
              data |-> MapDelete(own, disableInheritance)]

\* The pointers of the package's own classes: the order of their creation.
NotImplementedError == 3
ProgrammerError == 4
PanicError == 5
ErrorGroupError == 6
SyscallError == 7
ErrnoError == 8
NetworkError == 9
UnknownNetworkError == 10
AddrError == 11
InvalidAddrError == 12
NetOpError == 13
NetParseError == 14
DNSError == 15
DNSConfigError == 16
IOError == 17
EOF == 18
ClosedPipeError == 19
NoProgressError == 20
ShortBufferError == 21
ShortWriteError == 22
UnexpectedEOFError == 23

\* The package's own classes, in the order their var block creates them.
LibraryDecls ==
    << [parent |-> NoClass, name |-> "Not Implemented Error",
        options |-> <<LogOnCreation>>],
       [parent |-> NoClass, name |-> "Programmer Error",
        options |-> <<LogOnCreation>>],
       [parent |-> NoClass, name |-> "Panic Error",
        options |-> <<LogOnCreation>>],
       [parent |-> NoClass, name |-> "Error Group Error", options |-> <<>>],
       [parent |-> SystemError, name |-> "Syscall Error", options |-> <<>>],
       [parent |-> SystemError, name |-> "Errno Error", options |-> <<>>],
       [parent |-> SystemError, name |-> "Network Error", options |-> <<>>],
       [parent |-> NetworkError, name |-> "Unknown Network Error", options |-> <<>>],
       [parent |-> NetworkError, name |-> "Addr Error", options |-> <<>>],
       [parent |-> AddrError, name |-> "Invalid Addr Error", options |-> <<>>],
       [parent |-> NetworkError, name |-> "Network Op Error", options |-> <<>>],
       [parent |-> NetworkError, name |-> "Network Parse Error", options |-> <<>>],
       [parent |-> NetworkError, name |-> "DNS Error", options |-> <<>>],
       [parent |-> DNSError, name |-> "DNS Config Error", options |-> <<>>],
       [parent |-> SystemError, name |-> "IO Error", options |-> <<>>],
       [parent |-> IOError, name |-> "EOF", options |-> <<>>],
       [parent |-> IOError, name |-> "Closed Pipe Error", options |-> <<>>],
       [parent |-> IOError, name |-> "No Progress Error", options |-> <<>>],
       [parent |-> IOError, name |-> "Short Buffer Error", options |-> <<>>],
       [parent |-> IOError, name |-> "Short Write Error", options |-> <<>>],
       [parent |-> IOError, name |-> "Unexpected EOF Error", options |-> <<>>] >>

\* The class table once the package has initialised: each declaration is
\* a call of New on the table built so far.
RECURSIVE BuildClasses(_, _)
BuildClasses(cls, decls) ==
    IF decls = <<>> THEN cls
    ELSE BuildClasses(
            Append(cls, New(cls, Head(decls).parent, Head(decls).name,
                            Head(decls).options)),
            Tail(decls))

LibraryClasses == BuildClasses(BaseClasses, LibraryDecls)

\* The options the package's classes are built with; the composite literal of
\* HierarchicalError holds what CaptureStack() would set.
LibraryOptions ==
    << <<>>, <<CaptureStack>> >>
    \o [i \in DOMAIN LibraryDecls |-> LibraryDecls[i].options]


\* An Is that looks at the class and its parent and walks no further.
IsNoWalk(cls, e, parent) ==
    e # NoClass /\ (e = parent \/ cls[e].parent = parent)

\* e.Is(parent) in the class table cls: walk the parent links from e.
RECURSIVE Is(_, _, _)
Is(cls, e, parent) ==
    IF e = NoClass THEN FALSE
    ELSE IF e = parent THEN TRUE
    ELSE Is(cls, cls[e].parent, parent)


\* ------------------------------------------------------- foreign classifier

\* A classifier without its switch on the sentinels: only the type decides.
findSystemErrorClassByType(err) ==
    LET v == ForeignValues[-err]
    IN  IF v.type = "*os.SyscallError" THEN SyscallError
        ELSE IF v.type = "syscall.Errno" THEN ErrnoError
        ELSE IF v.net THEN NetworkError
        ELSE SystemError

\* findSystemErrorClass(err) for a foreign err: the sentinels by identity
\* first, then the dynamic type, the cases in the order of the switch.
findSystemErrorClass(err) ==
    LET v == ForeignValues[-err]
    IN  IF v.name = "io.EOF" THEN EOF
        ELSE IF v.name = "io.ErrUnexpectedEOF" THEN UnexpectedEOFError
        ELSE IF v.name = "io.ErrClosedPipe" THEN ClosedPipeError
        ELSE IF v.name = "io.ErrNoProgress" THEN NoProgressError
        ELSE IF v.name = "io.ErrShortBuffer" THEN ShortBufferError
        ELSE IF v.name = "io.ErrShortWrite" THEN ShortWriteError
        ELSE IF v.type = "*os.SyscallError" THEN SyscallError
        ELSE IF v.type = "syscall.Errno" THEN ErrnoError
        ELSE IF v.type = "net.UnknownNetworkError" THEN UnknownNetworkError
        ELSE IF v.type = "*net.AddrError" THEN AddrError
        ELSE IF v.type = "net.InvalidAddrError" THEN InvalidAddrError
        ELSE IF v.type = "*net.OpError" THEN NetOpError
        ELSE IF v.type = "*net.ParseError" THEN NetParseError
        ELSE IF v.type = "*net.DNSError" THEN DNSError
        ELSE IF v.type = "*net.DNSConfigError" THEN DNSConfigError
        ELSE IF v.net THEN NetworkError
        ELSE SystemError

\* ------------------------------------------------------------------- errors

\* An *Error. data is nil (hasData = FALSE) unless the wrap call was given
\* options; stack is the captured frames, exits the recorded ones.
ErrorValue(err, class, stack, exits, hasData, data) ==
    [err |-> err, class |-> class, stack |-> stack, exits |-> exits,
     hasData |-> hasData, data |-> data]

IncludeWrapped == 1

\* The bitwise or of the options: each is 0 or IncludeWrapped.
combineEquivOpts(opts) ==
    IF \E i \in DOMAIN opts : opts[i] = IncludeWrapped
    THEN IncludeWrapped ELSE 0

\* The Contains of the package's first version: a value that is no *Error,
\* nil too, is contained by SystemError and by no other class.
ContainsFirstVersion(cls, es, e, err, opts) ==
    IF ~IsError(err) THEN e = SystemError
    ELSE Is(cls, es[err].class, e)

\* A Contains that never looks beneath the *Error it is given.
ContainsOwnClassOnly(cls, es, e, err, opts) ==
    IF err = NilErr THEN FALSE
    ELSE IF ~IsError(err) THEN Is(cls, findSystemErrorClass(err), e)
    ELSE Is(cls, es[err].class, e)

\* e.Contains(err, opts...) for the class e, on the heap es.
RECURSIVE Contains(_, _, _, _, _)
Contains(cls, es, e, err, opts) ==
    IF err = NilErr THEN FALSE
    ELSE IF ~IsError(err) THEN Is(cls, findSystemErrorClass(err), e)
    ELSE IF Is(cls, es[err].class, e) THEN TRUE
    ELSE IF combineEquivOpts(opts) = 0 THEN FALSE
    ELSE Contains(cls, es, e, es[err].err, opts)

\* (e *Error).Is(ec, opts...) for the *Error ptr
ErrorIs(cls, es, ptr, ec, opts) == Contains(cls, es, ec, ptr, opts)

\* A GetData that reads the class's map before the error's own.
ErrorGetDataClassFirst(cls, e, key) ==
    IF key \in DOMAIN cls[e.class].data THEN cls[e.class].data[key]
    ELSE IF e.hasData /\ key \in DOMAIN e.data THEN e.data[key]
    ELSE Nil

\* (e *Error).GetData(key) for the Error value e
ErrorGetData(cls, e, key) ==
    IF e.hasData /\ key \in DOMAIN e.data THEN e.data[key]
    ELSE IF e.hasData
            /\ boolWrapper(MapGet(e.data, disableInheritance), FALSE)
         THEN Nil
    ELSE MapGet(cls[e.class].data, key)

\* GetData(err, key)
GetData(cls, es, err, key) ==
    IF IsError(err) THEN ErrorGetData(cls, es[err], key) ELSE Nil

\* (e *Error).WrappedErr() for the Error value e
ErrorWrappedErr(e) == e.err

\* WrappedErr(err)
WrappedErr(es, err) ==
    IF ~IsError(err) THEN err ELSE ErrorWrappedErr(es[err])

\* (e frame).String(): a zero pc has no function; another pc is shown by the
\* place it stands for.
frameString(f) == IF f = 0 THEN "unknown.unknown:0" ELSE f

\* err.Error() for a non-nil err, as the pieces the string is made of: for a
\* foreign value its own text; for an *Error the name of its class, the text
\* of what it holds, then the backtrace block if a stack was captured, then
\* the exits block if exits were recorded.
RECURSIVE ErrorError(_, _, _)
ErrorError(cls, es, err) ==
    IF ~IsError(err)
    THEN <<IF ForeignValues[-err].name # "" THEN ForeignValues[-err].name
           ELSE ForeignValues[-err].type>>
    ELSE LET e == es[err]
         IN  <<cls[e.class].name>> \o ErrorError(cls, es, e.err)
             \o (IF Len(e.stack) > 0
                 THEN <<"backtrace:">> \o e.stack ELSE <<>>)
             \o (IF Len(e.exits) > 0
                 THEN <<"exits:">>
                      \o [i \in DOMAIN e.exits |-> frameString(e.exits[i])]
                 ELSE <<>>)

\* GetClass(err)
GetClass(cls, es, err) ==
    IF err = NilErr THEN NoClass
    ELSE IF ~IsError(err) THEN findSystemErrorClass(err)
    ELSE es[err].class

\* The frames runtime.Callers stores for a capturing wrap call.
CapturedStack == <<"caller">>

\* A wrap that wraps again an error that is of class e already.
wrapIgnoresOwnClass(cls, es, e, err, classList, options) ==
    /\ IsError(err)
    /\ \E i \in DOMAIN classList : ErrorIs(cls, es, err, classList[i], <<>>)

\* A wrap that tests the first of the excluded classes only.
wrapTestsFirstClass(cls, es, e, err, classList, options) ==
    /\ IsError(err)
    /\ IF ErrorIs(cls, es, err, e, <<>>)
       THEN Len(options) = 0
       ELSE classList # <<>> /\ ErrorIs(cls, es, err, classList[1], <<>>)

\* A wrap that asks the excluded classes whether they contain err, which
\* for a value that is no *Error the classifier decides.
wrapExcludesByContains(cls, es, e, err, classList, options) ==
    IF IsError(err) /\ ErrorIs(cls, es, err, e, <<>>)
    THEN Len(options) = 0
    ELSE \E i \in DOMAIN classList :
             Contains(cls, es, classList[i], err, <<>>)

\* wrap's test for returning its argument as it is: err is an *Error that
\* is of class e already (and no options are given), or is of one of classes.
wrapReturnsArgument(cls, es, e, err, classList, options) ==
    /\ IsError(err)
    /\ IF ErrorIs(cls, es, err, e, <<>>)
       THEN Len(options) = 0
       ELSE \E i \in DOMAIN classList :
                ErrorIs(cls, es, err, classList[i], <<>>)

\* A wrap that drops the failure it is given.
wrappedDropped(es, err) == NilErr

\* A wrap that holds what its argument holds, not its argument.
wrappedInner(es, err) == IF IsError(err) THEN es[err].err ELSE err

\* The failure the new *Error holds: wrap's argument.
wrapped(es, err) == err

\* A wrap that captures the stack by the flag of the class alone.
wrapNewErrorStackByClass(cls, es, e, err, options) ==
    ErrorValue(wrapped(es, err), e,
               IF boolWrapper(MapGet(cls[e].data, captureStack), FALSE)
               THEN CapturedStack ELSE <<>>,
               <<>>, Len(options) > 0,
               IF Len(options) > 0
               THEN ApplyOptions(EmptyMap, options) ELSE EmptyMap)

\* A wrap that builds its *Error in the root of the class it was called on.
wrapNewErrorOfRoot(cls, es, e, err, options) ==
    LET root == CHOOSE c \in DOMAIN cls : Is(cls, e, c) /\ cls[c].parent = NoClass
    IN  ErrorValue(wrapped(es, err), root, <<>>, <<>>, Len(options) > 0,
                   IF Len(options) > 0
                   THEN ApplyOptions(EmptyMap, options) ELSE EmptyMap)

\* The *Error wrap builds: rv with its data and, if asked for, its stack.
wrapNewError(cls, es, e, err, options) ==
    LET rv == ErrorValue(wrapped(es, err), e, <<>>, <<>>, Len(options) > 0,
                         IF Len(options) > 0
                         THEN ApplyOptions(EmptyMap, options) ELSE EmptyMap)
    IN  IF boolWrapper(ErrorGetData(cls, rv, captureStack), FALSE)
        THEN [rv EXCEPT !.stack = CapturedStack]
        ELSE rv

\* A wrap that logs by the flag of the class alone.
wrapLogsByClass(cls, rv) ==
    boolWrapper(MapGet(cls[rv.class].data, logOnCreation), FALSE)

\* Whether wrap calls LogWithStack for the *Error it built.
wrapLogs(cls, rv) == boolWrapper(ErrorGetData(cls, rv, logOnCreation), FALSE)

\* The call recorded in ret: the method, its receiver class, its error
\* argument and key argument, and what it returned (an error, a bool or
\* an interface{}, by the method).
Call(op, cls, err, key, res, ok, val) ==
    [op |-> op, cls |-> cls, err |-> err, key |-> key,
     res |-> res, ok |-> ok, val |-> val]

\* A wrap without its test for nil.
wrapNoNilTest(err) == FALSE

\* wrap's first test: a nil err is returned as nil.
wrapReturnsNil(err) == err = NilErr

\* A wrap that, given an *Error, stores the data of the new *Error into the
\* one it was given as well.
wrapHeapInPlace(es, err, rv) ==
    IF IsError(err) /\ rv.hasData
    THEN Append([es EXCEPT ![err].hasData = TRUE, ![err].data = rv.data], rv)
    ELSE Append(es, rv)

\* The heap of errors after wrap has allocated rv := &Error{...} and filled
\* it: the errors there were, as they were, and rv.
wrapHeap(es, err, rv) == Append(es, rv)

\* e.wrap(err, classes, options), called through the method named op.
wrap(op, e, err, classList, options) ==
    IF wrapReturnsNil(err)
    THEN /\ ret' = Call(op, e, err, 0, NilErr, FALSE, Nil)
         /\ UNCHANGED <<errs, logged, given, recs>>
    ELSE IF wrapReturnsArgument(classes, errs, e, err, classList, options)
    THEN /\ ret' = Call(op, e, err, 0, err, FALSE, Nil)
         /\ UNCHANGED <<errs, logged, given, recs>>
    ELSE LET rv == wrapNewError(classes, errs, e, err, options)
             ptr == Len(errs) + 1
         IN  /\ Len(errs) < MaxErrs
             /\ errs' = wrapHeap(errs, err, rv)
             /\ logged' = IF wrapLogs(classes, rv)
                          THEN Append(logged, ptr) ELSE logged
             /\ given' = Append(given, options)
             /\ recs' = Append(recs, 0)
             /\ ret' = Call(op, e, err, 0, ptr, FALSE, Nil)

\* e.WrapUnless(err, classes...)
WrapUnless(e, err, classList) ==
    /\ wrap("WrapUnless", e, err, classList, <<>>)
    /\ UNCHANGED <<symVars, utilVars, classes, built>>

\* e.Wrap(err, options...)
Wrap(e, err, options) ==
    /\ wrap("Wrap", e, err, <<>>, options)
    /\ UNCHANGED <<symVars, utilVars, classes, built>>

\* e.New(format, args...): wraps the value fmt.Errorf returns.
ErrorClassNew(e) ==
    /\ wrap("New", e, PlainErr, <<>>, <<>>)
    /\ UNCHANGED <<symVars, utilVars, classes, built>>

\* e.NewWith(message, options...): wraps the value errors.New returns.
NewWith(e, options) ==
    /\ wrap("NewWith", e, PlainErr, <<>>, options)
    /\ UNCHANGED <<symVars, utilVars, classes, built>>

\* ----------------------------------------------------------- exit recording

\* callerState(depth) on the call stack stk of the thread that called
\* Record (stk[1] is the call site of Record): the frame depth levels above
\* callerState, or the zero pc where the stack ends.
callerState(stk, depth) ==
    IF depth - 2 \in DOMAIN stk THEN stk[depth - 2] ELSE 0

\* A record that puts the frame in front of the frames recorded before.
recordPrepend(exits, frame) == <<frame>> \o exits

\* The exits of an *Error after record appended the frame.
recordAppend(exits, frame) == Append(exits, frame)

\* record(err, depth)
record(op, err, depth, stk) ==
    IF err = NilErr
    THEN /\ ret' = Call(op, NoClass, err, 0, NilErr, FALSE, Nil)
         /\ UNCHANGED <<errs, recs>>
    ELSE IF ~IsError(err)
    THEN /\ ret' = Call(op, NoClass, err, 0, err, FALSE, Nil)
         /\ UNCHANGED <<errs, recs>>
    ELSE /\ errs' = [errs EXCEPT ![err].exits =
                        recordAppend(@, callerState(stk, depth))]
         /\ recs' = [recs EXCEPT ![err] = @ + 1]
         /\ ret' = Call(op, NoClass, err, 0, err, FALSE, Nil)

\* The number of frames recorded so far, over all errors.
RECURSIVE TotalExits(_)
TotalExits(es) ==
    IF es = <<>> THEN 0 ELSE Len(Head(es).exits) + TotalExits(Tail(es))

\* Record(err)
Record(err, stk) ==
    /\ IsError(err) => TotalExits(errs) < MaxRecords
    /\ record("Record", err, 3, stk)
    /\ UNCHANGED <<symVars, utilVars, classes, logged, built, given>>

\* RecordBefore(err, depth)
RecordBefore(err, depth, stk) ==
    /\ IsError(err) => TotalExits(errs) < MaxRecords
    /\ record("RecordBefore", err, 3 + depth, stk)
    /\ UNCHANGED <<symVars, utilVars, classes, logged, built, given>>

\* What a thread that is not inside record holds.
NoRead == [err |-> NilErr, exits |-> <<>>, frame |-> 0]

\* The number of threads inside record.
Recording == Cardinality({t \in 1..MaxThreads : rpc[t] = "append"})

\* Record(err) by thread t, for an *Error, up to where append has read
\* cast.exits: the nil test and the type test have passed, callerState has
\* returned the frame of the thread's call site.
RecordRead(t, err) ==
    /\ rpc[t] = "idle"
    /\ IsError(err)
    /\ TotalExits(errs) + Recording < MaxRecords
    /\ rpc' = [rpc EXCEPT ![t] = "append"]
    /\ rlocal' = [rlocal EXCEPT ![t] =
                     [err |-> err, exits |-> errs[err].exits,
                      frame |-> callerState(<<t>>, 3)]]
    /\ UNCHANGED <<symVars, coreVars, groupVars, panicVars>>

\* What cast.exits can hold after a thread has stored the slice it built
\* from the slice it read, now being cur: the slice it built; or, when
\* another thread stores at the same time, that thread's array with this
\* thread's length (the three words of a slice are not stored as one).
racyStore(read, frame, cur) ==
    {recordAppend(read, frame)}
    \cup (IF Len(cur) > Len(read) THEN {SubSeq(cur, 1, Len(read) + 1)} ELSE {})

\* Record(err) by thread t, from the store of cast.exits to the return.
RecordStore(t) ==
    /\ rpc[t] = "append"
    /\ LET r == rlocal[t]
       IN  /\ \E exits \in racyStore(r.exits, r.frame, errs[r.err].exits) :
                 errs' = [errs EXCEPT ![r.err].exits = exits]
           /\ recs' = [recs EXCEPT ![r.err] = @ + 1]
           /\ ret' = Call("Record", NoClass, r.err, 0, r.err, FALSE, Nil)
    /\ rpc' = [rpc EXCEPT ![t] = "idle"]
    /\ rlocal' = [rlocal EXCEPT ![t] = NoRead]
    /\ UNCHANGED <<symVars, classes, logged, built, given, groupVars,
                   panicVars>>

\* ------------------------------------------------------------------ queries

\* e.Contains(err, opts...), called by the program.
CallContains(e, err, opts) ==
    /\ ret' = Call("Contains", e, err, combineEquivOpts(opts), NilErr,
                   Contains(classes, errs, e, err, opts), Nil)
    /\ UNCHANGED <<symVars, utilVars, classes, errs, logged, built, given, recs>>

\* GetData(err, key), called by the program.
CallGetData(err, key) ==
    /\ ret' = Call("GetData", NoClass, err, key, NilErr, FALSE,
                   GetData(classes, errs, err, key))
    /\ UNCHANGED <<symVars, utilVars, classes, errs, logged, built, given, recs>>


\* WrappedErr(err), called by the program.
CallWrappedErr(err) ==
    /\ ret' = Call("WrappedErr", NoClass, err, 0, WrappedErr(errs, err),
                   FALSE, Nil)
    /\ UNCHANGED <<symVars, utilVars, classes, errs, logged, built, given, recs>>

\* err.Error(), called by the program on an *Error.
CallError(err) ==
    /\ IsError(err)
    /\ ret' = Call("Error", NoClass, err, 0, NilErr, FALSE,
                   ErrorError(classes, errs, err))
    /\ UNCHANGED <<symVars, utilVars, classes, errs, logged, built, given, recs>>

\* GetClass(err), called by the program.
CallGetClass(err) ==
    /\ ret' = Call("GetClass", GetClass(classes, errs, err), err, 0, NilErr,
                   FALSE, Nil)
    /\ UNCHANGED <<symVars, utilVars, classes, errs, logged, built, given, recs>>

\* e.Is(parent), called by the program.
CallIs(e, parent) ==
    /\ ret' = Call("Is", e, NilErr, parent, NilErr,
                   Is(classes, e, parent), Nil)
    /\ UNCHANGED <<symVars, utilVars, classes, errs, logged, built, given, recs>>

\* ------------------------------------------------------------ error groups

\* What fmt prints for a piece of a format string when no operand is left:
\* a verb becomes the note that its operand is missing, other text is kept.
fmtPiece(p) == IF p = "%d" THEN "%!d(MISSING)" ELSE p

\* A formatter that copies the format string.
SprintfCopy(lines) == lines

\* fmt.Sprintf(format) of a format string given as its lines, each line as
\* its pieces, with no operands.
Sprintf(lines) ==
    [i \in DOMAIN lines |-> [j \in DOMAIN lines[i] |-> fmtPiece(lines[i][j])]]

\* fmt.Sprintf("... and %d more.", excess)
moreLine(excess) == <<"... and ", ToString(excess), " more.">>

\* NewErrorGroup()
NewErrorGroup ==
    /\ group' = [Errors |-> <<>>, limit |-> 0, excess |-> 0]
    /\ adds' = <<>>
    /\ ret' = Call("NewErrorGroup", NoClass, NilErr, 0, NilErr, FALSE, Nil)
    /\ UNCHANGED <<symVars, classes, errs, logged, built, given, recs, text,
                   lgroup, lcount, groupLog, panicVars, raceVars>>

\* NewBoundedErrorGroup(limit)
NewBoundedErrorGroup(limit) ==
    /\ group' = [Errors |-> <<>>, limit |-> limit, excess |-> 0]
    /\ adds' = <<>>
    /\ ret' = Call("NewBoundedErrorGroup", NoClass, NilErr, limit, NilErr,
                   FALSE, Nil)
    /\ UNCHANGED <<symVars, classes, errs, logged, built, given, recs, text,
                   lgroup, lcount, groupLog, panicVars, raceVars>>

\* An Add that retains every error, whatever the limit.
groupIsFullNever(g) == FALSE

\* e.limit > 0 && len(e.Errors) == e.limit
groupIsFull(g) == g.limit > 0 /\ Len(g.Errors) = g.limit

\* (e *ErrorGroup).Add(err)
ErrorGroupAdd(err) ==
    /\ err # NilErr => Len(adds) < MaxAdds
    /\ IF err = NilErr
       THEN UNCHANGED <<group, adds>>
       ELSE /\ group' = IF groupIsFull(group)
                        THEN [group EXCEPT !.excess = @ + 1]
                        ELSE [group EXCEPT !.Errors = Append(@, err)]
            /\ adds' = Append(adds, err)
    /\ ret' = Call("Add", NoClass, err, 0, NilErr, FALSE, Nil)
    /\ UNCHANGED <<symVars, classes, errs, logged, built, given, recs, text,
                   lgroup, lcount, groupLog, panicVars, raceVars>>

\* A Finalize that hands a lone error to the class to wrap.
finalizeReturnsSingleNever(g) == FALSE

\* len(e.Errors) == 1 && e.excess == 0
finalizeReturnsSingle(g) == Len(g.Errors) = 1 /\ g.excess = 0

\* The msgs Finalize collects: the text of each retained error, then the
\* line counting the excess if there was one.
finalizeMsgs(cls, es, g) ==
    [i \in DOMAIN g.Errors |-> ErrorError(cls, es, g.Errors[i])]
    \o (IF g.excess > 0 THEN <<moreLine(g.excess)>> ELSE <<>>)

\* A Finalize that leaves the group as it is.
finalizeKeeps(g) == g

\* e.excess = 0; e.Errors = nil
finalizeReset(g) == [g EXCEPT !.Errors = <<>>, !.excess = 0]

\* (e *ErrorGroup).Finalize()
ErrorGroupFinalize ==
    IF Len(group.Errors) = 0
    THEN /\ ret' = Call("Finalize", NoClass, NilErr, 0, NilErr, FALSE, Nil)
         /\ UNCHANGED <<symVars, classes, errs, logged, built, given, recs,
                        utilVars>>
    ELSE IF finalizeReturnsSingle(group)
    THEN /\ ret' = Call("Finalize", NoClass, NilErr, 0, group.Errors[1],
                        FALSE, Nil)
         /\ UNCHANGED <<symVars, classes, errs, logged, built, given, recs,
                        utilVars>>
    ELSE /\ text' = Sprintf(finalizeMsgs(classes, errs, group))
         /\ group' = finalizeReset(group)
         /\ adds' = <<>>
         /\ wrap("Finalize", ErrorGroupError, PlainErr, <<>>, <<>>)
         /\ UNCHANGED <<symVars, classes, built, lgroup, lcount, groupLog,
                        panicVars, raceVars>>

\* NewLoggingErrorGroup(name)
NewLoggingErrorGroup(name) ==
    /\ lgroup' = [name |-> name, total |-> 0, failed |-> 0]
    /\ lcount' = [total |-> 0, failed |-> 0]
    /\ ret' = Call("NewLoggingErrorGroup", NoClass, NilErr, 0, NilErr, FALSE,
                   name)
    /\ UNCHANGED <<symVars, classes, errs, logged, built, given, recs, group,
                   adds, text, groupLog, panicVars, raceVars>>

\* An Add that takes no value it is given for a failure.
loggingAddFailsNever(err) == FALSE

\* err != nil
loggingAddFails(err) == err # NilErr

\* logger.Errorf("%s: %s", e.name, err)
loggingLine(cls, es, name, err) == <<name, ": ">> \o ErrorError(cls, es, err)

\* (e *LoggingErrorGroup).Add(err)
LoggingErrorGroupAdd(err) ==
    /\ lcount.total < MaxAdds
    /\ err # NilErr => Len(groupLog) < MaxAdds
    /\ IF loggingAddFails(err)
       THEN /\ groupLog' = Append(groupLog,
                                  loggingLine(classes, errs, lgroup.name, err))
            /\ lgroup' = [lgroup EXCEPT !.total = @ + 1, !.failed = @ + 1]
       ELSE /\ lgroup' = [lgroup EXCEPT !.total = @ + 1]
            /\ UNCHANGED groupLog
    /\ lcount' = [total |-> lcount.total + 1,
                  failed |-> lcount.failed + (IF err = NilErr THEN 0 ELSE 1)]
    /\ ret' = Call("LoggingAdd", NoClass, err, 0, NilErr, FALSE, Nil)
    /\ UNCHANGED <<symVars, classes, errs, logged, built, given, recs, group,
                   adds, text, panicVars, raceVars>>

\* fmt.Errorf("%s: %d of %d failed.", e.name, e.failed, e.total)
failedLine(name, failed, total) ==
    <<name, ": ", ToString(failed), " of ", ToString(total), " failed.">>

\* (e *LoggingErrorGroup).Finalize()
LoggingErrorGroupFinalize ==
    /\ IF lgroup.failed > 0
       THEN /\ text' = <<failedLine(lgroup.name, lgroup.failed, lgroup.total)>>
            /\ wrap("LoggingFinalize", ErrorGroupError, PlainErr, <<>>, <<>>)
       ELSE /\ ret' = Call("LoggingFinalize", NoClass, NilErr, 0, NilErr,
                           FALSE, Nil)
            /\ UNCHANGED <<errs, logged, given, recs, text>>
    /\ lgroup' = [lgroup EXCEPT !.total = 0, !.failed = 0]
    /\ lcount' = [total |-> 0, failed |-> 0]
    /\ UNCHANGED <<symVars, classes, built, group, adds, groupLog, panicVars,
                   raceVars>>

\* ------------------------------------------------------------------ panics

\* The goroutine of a function that is not running: nothing deferred is
\* pending and no panic is unwinding it.
NoPanic == [deferred |-> FALSE, is |-> "none", err |-> NilErr, val |-> ""]

\* The values a function panics with: an error value, or a value that is no
\* error; and the state of a function that returns without a panic.
PanicOfError(err) == [deferred |-> TRUE, is |-> "error", err |-> err, val |-> ""]
PanicOfValue(val) ==
    [deferred |-> TRUE, is |-> "value", err |-> NilErr, val |-> val]
Returning == [deferred |-> TRUE, is |-> "none", err |-> NilErr, val |-> ""]

\* func() (err error) { defer CatchPanic(&err); ... }: the body has assigned
\* e0 to err and now returns or panics, as p tells; the deferred call is
\* pending.
RunDeferring(e0, p) ==
    /\ panic = NoPanic
    /\ panic' = p
    /\ slot' = e0
    /\ ret' = Call("defer", NoClass, e0, 0, NilErr, FALSE, Nil)
    /\ UNCHANGED <<symVars, classes, errs, logged, built, given, recs,
                   groupVars, raceVars>>

\* recover() in a function that the deferred function calls: nil, and the
\* panic goes on.
recoverNotDeferred(p) == NoPanic

\* recover() called by the deferred function itself: the value of the panic
\* that is unwinding, nil if there is none.
recover(p) == p

\* fmt.Errorf("%v", r) for a value r that is no error
panicLine(val) == <<val>>

\* CatchPanic(err_ref), run as the deferred call
CatchPanic ==
    /\ panic.deferred
    /\ LET r == recover(panic)
       IN  IF r.is = "none"
           THEN /\ panic' = [panic EXCEPT !.deferred = FALSE]
                /\ ret' = Call("CatchPanic", NoClass, NilErr, 0, slot, FALSE,
                               Nil)
                /\ UNCHANGED <<slot, errs, logged, given, recs, text>>
           ELSE /\ IF r.is = "error"
                   THEN /\ wrap("CatchPanic", PanicError, r.err, <<>>, <<>>)
                        /\ UNCHANGED text
                   ELSE /\ wrap("CatchPanic", PanicError, PlainErr, <<>>, <<>>)
                        /\ text' = <<panicLine(r.val)>>
                /\ slot' = ret'.res
                /\ panic' = NoPanic
    /\ UNCHANGED <<symVars, classes, built, groupVars, raceVars>>

\* -------------------------------------------------------- class construction

\* The classes the program has added to the library's.
UserClasses == {c \in 1..Len(classes) : c > Len(LibraryClasses)}

\* New(parent, name, options...), called by the program.
NewClass(parent, name, options) ==
    /\ Cardinality(UserClasses) < MaxClasses
    /\ classes' = Append(classes, New(classes, parent, name, options))
    /\ built' = Append(built, options)
    /\ ret' = Call("NewClass", Len(classes) + 1, NilErr, 0, NilErr, FALSE, Nil)
    /\ UNCHANGED <<symVars, utilVars, errs, logged, given, recs>>

\* ------------------------------------------------------------------- GenSym

\* A thread inside GenSym executes the atomic add; the sum is its own.
GenSymAdd(t) ==
    /\ pc[t] = "idle"
    /\ calls < MaxCalls
    /\ calls' = calls + 1
    /\ lastId' = AtomicAddInt32(lastId, 1)
    /\ wraps' = IF lastId = MaxId THEN wraps + 1 ELSE wraps
    /\ reg' = [reg EXCEPT ![t] = lastId']
    /\ pc' = [pc EXCEPT ![t] = "added"]
    /\ UNCHANGED <<issued, coreVars, utilVars>>

\* The thread returns DataKey{id: sum}.
GenSymReturn(t) ==
    /\ pc[t] = "added"
    /\ issued' = Append(issued, reg[t])
    /\ pc' = [pc EXCEPT ![t] = "idle"]
    /\ UNCHANGED <<lastId, wraps, reg, calls, coreVars, utilVars>>

\* ------------------------------------------------------------------- inputs


\* The keys a program holds: those GenSym returned to it.
UserKeys == {k \in 1..lastId : k > disableInheritance}

\* The lists of options calls are given: none, an entry under a key of the
\* program's, the two flags.
OptionLists ==
    {<<>>, <<NoCaptureStack, LogOnCreation>>}
    \cup {<<SetData(k, "a")>> : k \in UserKeys}

\* The classes errors are wrapped in: a root, a child of it that logs, and
\* the other root.
InputClasses == {HierarchicalError, PanicError, SystemError}

\* The lists of classes WrapUnless is given.
ClassLists == {<<>>, <<HierarchicalError>>, <<SystemError, PanicError>>}

\* The classes whose membership is asked for: a chain of three, and a class
\* beside it.
QueryClasses == {SystemError, IOError, EOF, NetworkError}

\* The errors calls are given: nil, a foreign value, and every *Error.
InputErrs == {NilErr, PlainErr} \cup (1..Len(errs))

\* The classes and lists of options of the errors whose data is read: a
\* class with no data, one with one flag, one with both flags.
DataClasses == {SystemError, HierarchicalError, PanicError}
DataOptionLists ==
    {<<>>, <<NoCaptureStack>>, <<CaptureStack>>, <<NoLogOnCreation>>,
     <<LogOnCreation, DisableInheritance>>, <<DisableInheritance>>}
    \cup {<<SetData(k, "a"), SetData(k, "b")>> : k \in UserKeys}
    \cup {<<DisableInheritance, SetData(k, "a")>> : k \in UserKeys}

\* The parents classes are built under: none (the default), and every class
\* the program has built.
ParentClasses == {NoClass} \cup UserClasses

\* The lists of options classes are built with.
ClassOptionLists ==
    {<<>>, <<DisableInheritance>>}
    \cup {<<SetData(k, "a")>> : k \in UserKeys}
    \cup {<<SetData(k, "b"), DisableInheritance>> : k \in UserKeys}

\* The options classes are built with, and errors made with, where the two
\* flags are what matters.
FlagClassOptionLists == {<<>>, <<NoCaptureStack>>, <<LogOnCreation>>}
FlagOptionLists ==
    {<<>>, <<NoCaptureStack, LogOnCreation>>, <<DisableInheritance>>,
     <<NoLogOnCreation, CaptureStack>>}

\* The call stacks Record is called from: the pcs of its callers.
Stacks == {<<1>>, <<2, 1>>}

\* The lists of options of the calls whose effect on other objects is
\* looked at: none, a flag, an entry under a key of the program's.
FrameOptionLists ==
    {<<>>, <<NoCaptureStack>>} \cup {<<SetData(k, "a")>> : k \in UserKeys}

\* The errors a caller adds to a group that holds n additions: nil at any
\* time; then BAD, MAD and SAD in the order of TestErrorGroupLimitExceeded,
\* with, in place of the first, an error made before and, in place of the
\* first or the second, a value whose text holds a verb.
GroupErrs(n) ==
    {NilErr}
    \cup (IF n = 0 THEN {BadErr, VerbErr} \cup (1..Len(errs))
          ELSE IF n = 1 THEN {MadErr, VerbErr}
          ELSE IF n = 2 THEN {SadErr}
          ELSE {BadErr})
Limits == 0..MaxLimit

\* The names of logging groups, and the errors added to one: nil, BAD as in
\* TestLoggingErrorGroupLogsAndReturnsErrIfAdded, and the errors made so far.
\* What a deferring function has in err when its body ends, and what it
\* panics with: an error value (a made one, the end-of-file sentinel, an
\* error of this package) or the string of ExampleCatchPanic.
SlotErrs == {NilErr, BadErr}
Panics ==
    {Returning, PanicOfValue("oh hai")}
    \cup {PanicOfError(err) : err \in {BadErr, IoEOF} \cup (1..Len(errs))}

GroupNames == {"foo", "bar"}
LoggingErrs == {NilErr, BadErr} \cup (1..Len(errs))

\* ------------------------------------------------------------ specification

NoCall == Call("", NoClass, NilErr, 0, NilErr, FALSE, Nil)

\* The package has initialised: its three keys are issued, its classes built.
InitPackage ==
    /\ lastId = 3
    /\ wraps = 0
    /\ pc = [t \in 1..MaxThreads |-> "idle"]
    /\ reg = [t \in 1..MaxThreads |-> 0]
    /\ calls = 0
    /\ issued = <<1, 2, 3>>
    /\ classes = LibraryClasses
    /\ errs = <<>>
    /\ logged = <<>>
    /\ built = LibraryOptions
    /\ given = <<>>
    /\ recs = <<>>
    /\ ret = NoCall
    /\ group = [Errors |-> <<>>, limit |-> 0, excess |-> 0]
    /\ adds = <<>>
    /\ text = <<>>
    /\ lgroup = [name |-> "foo", total |-> 0, failed |-> 0]
    /\ lcount = [total |-> 0, failed |-> 0]
    /\ groupLog = <<>>
    /\ panic = NoPanic
    /\ slot = NilErr
    /\ rpc = [t \in 1..MaxThreads |-> "idle"]
    /\ rlocal = [t \in 1..MaxThreads |-> NoRead]

\* The program has taken one key of its own from GenSym.
Init ==
    /\ lastId = 4
    /\ wraps = 0
    /\ pc = [t \in 1..MaxThreads |-> "idle"]
    /\ reg = [t \in 1..MaxThreads |-> 0]
    /\ calls = 0
    /\ issued = <<1, 2, 3, 4>>
    /\ classes = LibraryClasses
    /\ errs = <<>>
    /\ logged = <<>>
    /\ built = LibraryOptions
    /\ given = <<>>
    /\ recs = <<>>
    /\ ret = NoCall
    /\ group = [Errors |-> <<>>, limit |-> 0, excess |-> 0]
    /\ adds = <<>>
    /\ text = <<>>
    /\ lgroup = [name |-> "foo", total |-> 0, failed |-> 0]
    /\ lcount = [total |-> 0, failed |-> 0]
    /\ groupLog = <<>>
    /\ panic = NoPanic
    /\ slot = NilErr
    /\ rpc = [t \in 1..MaxThreads |-> "idle"]
    /\ rlocal = [t \in 1..MaxThreads |-> NoRead]

\* The counter of a process that has called GenSym for a long time: as the
\* package leaves it; two calls short of the largest value of its type;
\* and, one round of the type later, two calls short of zero. issued holds
\* the ids returned last.
LongRuns ==
    { [lastId |-> disableInheritance, wraps |-> 0, issued |-> <<1, 2, 3>>],
      [lastId |-> MaxId - 1, wraps |-> 0,
       issued |-> <<MaxId - 2, MaxId - 1>>],
      [lastId |-> 0 - 2, wraps |-> 1, issued |-> <<0 - 3, 0 - 2>>] }

\* The state of a process after the package has initialised and the
\* process has made the GenSym calls of one of the long runs.
InitLong ==
    /\ \E run \in LongRuns :
          /\ lastId = run.lastId
          /\ wraps = run.wraps
          /\ issued = run.issued
    /\ pc = [t \in 1..MaxThreads |-> "idle"]
    /\ reg = [t \in 1..MaxThreads |-> 0]
    /\ calls = 0
    /\ classes = LibraryClasses
    /\ errs = <<>>
    /\ logged = <<>>
    /\ built = LibraryOptions
    /\ given = <<>>
    /\ recs = <<>>
    /\ ret = NoCall
    /\ group = [Errors |-> <<>>, limit |-> 0, excess |-> 0]
    /\ adds = <<>>
    /\ text = <<>>
    /\ lgroup = [name |-> "foo", total |-> 0, failed |-> 0]
    /\ lcount = [total |-> 0, failed |-> 0]
    /\ groupLog = <<>>
    /\ panic = NoPanic
    /\ slot = NilErr
    /\ rpc = [t \in 1..MaxThreads |-> "idle"]
    /\ rlocal = [t \in 1..MaxThreads |-> NoRead]

\* The program wraps errors.
Next ==
    \/ \E e \in InputClasses, err \in InputErrs, options \in OptionLists :
          Wrap(e, err, options)
    \/ \E e \in InputClasses, err \in InputErrs, classList \in ClassLists :
          WrapUnless(e, err, classList)
    \/ \E err \in InputErrs : CallWrappedErr(err)

\* The program creates errors and records exits on them.
NextRecord ==
    \/ \E e \in {SystemError, HierarchicalError} : ErrorClassNew(e)
    \/ \E err \in InputErrs, stk \in Stacks : Record(err, stk)
    \/ \E err \in InputErrs, stk \in Stacks, depth \in 0..1 :
          RecordBefore(err, depth, stk)

\* The program creates errors with data of their own and reads data.
NextData ==
    \/ \E e \in DataClasses, options \in DataOptionLists : NewWith(e, options)
    \/ \E err \in InputErrs, key \in {logOnCreation, captureStack} \cup UserKeys :
          CallGetData(err, key)

\* The program wraps errors, one around the other, and asks for their class.
NextQuery ==
    \/ \E e \in InputClasses, err \in {NilErr, IoEOF} \cup (1..Len(errs)) :
          Wrap(e, err, <<>>)
    \/ \E e \in InputClasses \cup QueryClasses, err \in InputErrs \cup Foreign,
          opts \in {<<>>, <<IncludeWrapped>>} : CallContains(e, err, opts)
    \/ \E err \in InputErrs \cup Foreign : CallGetClass(err)

\* The program builds its classes and asks how they descend.
NextClass ==
    \/ \E parent \in ParentClasses, options \in ClassOptionLists :
          NewClass(parent, "Class", options)
    \/ \E e \in UserClasses \cup {HierarchicalError},
          parent \in UserClasses \cup {HierarchicalError} : CallIs(e, parent)

\* The program builds its classes, creates one error and reads its data.
NextInherit ==
    \/ \E parent \in ParentClasses, options \in ClassOptionLists :
          NewClass(parent, "Class", options)
    \/ \E e \in UserClasses : errs = <<>> /\ ErrorClassNew(e)
    \/ \E err \in InputErrs, key \in {captureStack} \cup UserKeys :
          CallGetData(err, key)

\* The program builds a class of its own under one of the two roots, makes
\* errors of it and of a class of the package that logs, wraps them again,
\* and uses them; it records one exit.
NextFlags ==
    \/ \E parent \in {NoClass, SystemError}, options \in FlagClassOptionLists :
          UserClasses = {} /\ NewClass(parent, "Class", options)
    \/ \E e \in UserClasses \cup {PanicError}, options \in FlagOptionLists :
          NewWith(e, options)
    \/ \E err \in InputErrs : Wrap(HierarchicalError, err, <<>>)
    \/ \E err \in InputErrs : TotalExits(errs) = 0 /\ Record(err, <<1>>)
    \/ \E err \in InputErrs : CallContains(SystemError, err, <<>>)
    \/ \E err \in InputErrs : CallGetData(err, logOnCreation)
    \/ \E err \in InputErrs : CallError(err)

\* The program makes errors, wraps them with and without options, and uses
\* each operation that is given an error or a class.
NextFrame ==
    \/ errs = <<>> /\ ErrorClassNew(HierarchicalError)
    \/ errs = <<>> /\ NewWith(SystemError, <<NoCaptureStack>>)
    \/ \E err \in InputErrs, options \in FrameOptionLists :
          Wrap(HierarchicalError, err, options)
    \/ \E err \in InputErrs : WrapUnless(SystemError, err, <<PanicError>>)
    \/ \E err \in InputErrs : CallContains(SystemError, err, <<IncludeWrapped>>)
    \/ \E err \in InputErrs, key \in UserKeys : CallGetData(err, key)
    \/ \E err \in InputErrs : Record(err, <<1>>)

\* Threads call GenSym.
NextGroup ==
    \/ NewErrorGroup
    \/ \E limit \in Limits : NewBoundedErrorGroup(limit)
    \/ \E err \in GroupErrs(Len(adds)) : ErrorGroupAdd(err)
    \/ ErrorGroupFinalize

NextLogging ==
    \/ \E name \in GroupNames : NewLoggingErrorGroup(name)
    \/ \E err \in LoggingErrs : LoggingErrorGroupAdd(err)
    \/ LoggingErrorGroupFinalize

NextPanic ==
    \/ \E e0 \in SlotErrs, p \in Panics : RunDeferring(e0, p)
    \/ CatchPanic
    \/ Len(errs) = 0 /\ Wrap(HierarchicalError, BadErr, <<>>)

NextRace ==
    \/ \E e \in {HierarchicalError, SystemError} : ErrorClassNew(e)
    \/ \E t \in 1..MaxThreads, err \in 1..Len(errs) : RecordRead(t, err)
    \/ \E t \in 1..MaxThreads : RecordStore(t)

NextGenSym ==
    \/ \E t \in 1..MaxThreads : GenSymAdd(t)
    \/ \E t \in 1..MaxThreads : GenSymReturn(t)

SpecRecord == Init /\ [][NextRecord]_vars
SpecData == Init /\ [][NextData]_vars
SpecQuery == Init /\ [][NextQuery]_vars
SpecClass == Init /\ [][NextClass]_vars
SpecInherit == Init /\ [][NextInherit]_vars
SpecGenSym == InitPackage /\ [][NextGenSym]_vars
SpecFlags == Init /\ [][NextFlags]_vars
SpecGroup == Init /\ [][NextGroup]_vars
SpecLogging == Init /\ [][NextLogging]_vars
SpecPanic == Init /\ [][NextPanic]_vars
SpecRace == Init /\ [][NextRace]_vars
SpecGenSymLong == InitLong /\ [][NextGenSym]_vars
SpecFrame == Init /\ [][NextFrame]_vars

Spec == Init /\ [][Next]_vars

\* ================================================================== claims

\* The classes from c up its parent links, c included: the least set that
\* holds c and the parent of each of its members.
RECURSIVE ParentClosure(_, _)
ParentClosure(cls, S) ==
    LET T == S \cup {cls[x].parent : x \in {y \in S : cls[y].parent # NoClass}}
    IN  IF T = S THEN S ELSE ParentClosure(cls, T)

AncestorsOrSelf(cls, c) == ParentClosure(cls, {c})

\* The class of the *Error ptr descends from the class e, or is e.
OfClass(ptr, e) == e \in AncestorsOrSelf(classes, errs[ptr].class)

\* The same of an error of the heap es.
OfClassIn(es, ptr, e) == e \in AncestorsOrSelf(classes, es[ptr].class)

\* ------------------------------------------------------------------ C1
\* C1: in every interleaving of the threads calling GenSym, no two calls
\* return equal keys: the ids returned so far, those of the package's own
\* three calls included, are pairwise different, and so are the sums held by
\* the threads that have not returned yet.
C1_NoTwoCallsReturnEqualKeys ==
    /\ \A i, j \in DOMAIN issued : i # j => issued[i] # issued[j]
    /\ \A t \in 1..MaxThreads :
          pc[t] = "added" =>
             /\ \A i \in DOMAIN issued : issued[i] # reg[t]
             /\ \A u \in 1..MaxThreads :
                   (u # t /\ pc[u] = "added") => reg[u] # reg[t]

\* Two threads were inside GenSym at once and returned in the other order
\* than they added.
C1_Witness ==
    \E i, j \in DOMAIN issued : i < j /\ issued[i] > issued[j]

\* ------------------------------------------------------------------ C2
\* C2: c.Is(a) is true iff a is c or is reached from c along parent links;
\* and for classes A, B, C with C's parent B and B's parent A, C.Is(A) is
\* true and A.Is(C) is false.
C2_IsFollowsParentLinks ==
    /\ ret.op = "Is" =>
          ret.ok = (ret.key \in AncestorsOrSelf(classes, ret.cls))
    /\ \A C \in 1..Len(classes) :
          LET B == classes[C].parent
          IN  (B # NoClass /\ classes[B].parent # NoClass) =>
                 LET A == classes[B].parent
                 IN  Is(classes, C, A) /\ ~Is(classes, A, C)

\* The program asked C.Is(A) for classes of its own, C the child of a child
\* of A, and the answer was true.
C2_Witness ==
    /\ ret.op = "Is" /\ ret.ok
    /\ ret.key \in UserClasses
    /\ classes[ret.cls].parent # ret.key
    /\ classes[classes[ret.cls].parent].parent = ret.key

\* ------------------------------------------------------------------ C3
\* C3: wrapping an *Error whose class is X or descends from X in X, with no
\* options, returns that very *Error and allocates none; so X.Wrap of what
\* the X.Wrap before it returned returns the same instance. (A step that is
\* Wrap(e, err, ...) leaves e and err in ret'.)
C3_RewrapReturnsSameInstance ==
    [][ LET e == ret'.cls
            err == ret'.err
        IN  /\ (/\ ret'.op = "Wrap" /\ IsError(err) /\ OfClass(err, e)
                /\ Wrap(e, err, <<>>)) =>
                  (ret'.res = err /\ errs' = errs)
            /\ (/\ ret.op = "Wrap" /\ ret.res # NilErr
                /\ Wrap(ret.cls, ret.res, <<>>)) =>
                  (ret'.res = ret.res /\ errs' = errs)
      ]_vars

\* X.Wrap returned the *Error it was given, one made by a class below X.
C3_Witness ==
    /\ ret.op = "Wrap" /\ IsError(ret.err) /\ ret.res = ret.err
    /\ errs[ret.err].class # ret.cls

\* ------------------------------------------------------------------ C4
\* C4: for every class and every list of options or of excluded classes,
\* Wrap and WrapUnless of nil return nil, allocate no *Error (so capture no
\* stack) and log nothing.
C4_WrapNilReturnsNil ==
    [][ LET e == ret'.cls
        IN  ret'.err = NilErr =>
              /\ \A options \in OptionLists :
                    Wrap(e, NilErr, options) =>
                       (ret'.res = NilErr /\ errs' = errs /\ logged' = logged)
              /\ \A classList \in ClassLists :
                    WrapUnless(e, NilErr, classList) =>
                       (ret'.res = NilErr /\ errs' = errs /\ logged' = logged)
      ]_vars

\* A class that logs on creation was asked to wrap nil, and returned nil.
C4_Witness ==
    /\ ret.op \in {"Wrap", "WrapUnless"} /\ ret.cls = PanicError
    /\ ret.err = NilErr /\ ret.res = NilErr

\* ------------------------------------------------------------------ C5
\* C5, as stated: X.Wrap(err, options...) with at least one option, on an
\* *Error err that is of class X already, returns a new *Error that holds
\* the failure err holds, not err. (Wrap makes a new *Error of an err of
\* class X only when it is given options.)
C5_AsStated ==
    (/\ ret.op = "Wrap" /\ IsError(ret.err) /\ ret.res # ret.err
     /\ OfClass(ret.err, ret.cls)) =>
        errs[ret.res].err = errs[ret.err].err

\* C5, amended: the call returns a new *Error of class X that holds err
\* itself, the *Error it was given, and carries the options as its data;
\* err is left as it was.
C5_RewrapWithOptionsHoldsArgument ==
    [][ LET e == ret'.cls
            err == ret'.err
        IN  \A options \in OptionLists \ {<<>>} :
              (/\ ret'.op = "Wrap" /\ IsError(err) /\ OfClass(err, e)
               /\ Wrap(e, err, options)) =>
                 /\ Len(errs') = Len(errs) + 1
                 /\ ret'.res = Len(errs')
                 /\ errs'[ret'.res].err = err
                 /\ errs'[ret'.res].class = e
                 /\ errs'[ret'.res].hasData
                 /\ errs'[ret'.res].data = ApplyOptions(EmptyMap, options)
                 /\ \A i \in DOMAIN errs : errs'[i] = errs[i]
      ]_vars

\* X.Wrap was given options and an *Error of class X that holds a foreign
\* failure, and returned another *Error.
C5_Witness ==
    /\ ret.op = "Wrap" /\ IsError(ret.err) /\ IsError(ret.res)
    /\ ret.res # ret.err
    /\ OfClass(ret.err, ret.cls)
    /\ IsForeign(errs[ret.err].err)

\* ------------------------------------------------------------------ C6
\* C6: X.WrapUnless(err, excluded...) of a non-nil err returns err itself,
\* and allocates nothing, when err is an *Error whose class is, or descends
\* from, X or one of the excluded classes; otherwise it returns a new *Error
\* of class X that holds err.
C6_WrapUnlessPassesExcluded ==
    [][ LET e == ret'.cls
            err == ret'.err
        IN  \A classList \in ClassLists :
              (/\ ret'.op = "WrapUnless" /\ err # NilErr
               /\ WrapUnless(e, err, classList)) =>
                 IF /\ IsError(err)
                    /\ \/ OfClass(err, e)
                       \/ \E i \in DOMAIN classList :
                             OfClass(err, classList[i])
                 THEN ret'.res = err /\ errs' = errs
                 ELSE /\ Len(errs') = Len(errs) + 1
                      /\ \A i \in DOMAIN errs : errs'[i] = errs[i]
                      /\ ret'.res = Len(errs')
                      /\ errs'[ret'.res].class = e
                      /\ errs'[ret'.res].err = err
      ]_vars

\* X.WrapUnless returned the *Error it was given, which is not of class X:
\* it is of an excluded class.
C6_Witness ==
    /\ ret.op = "WrapUnless" /\ IsError(ret.err) /\ ret.res = ret.err
    /\ ~OfClass(ret.err, ret.cls)

\* ------------------------------------------------------------------ C7
\* What the options a class or an error was made with say, read from the
\* lists of options themselves (built, given), not from the maps.
Defines(options, key) == \E i \in DOMAIN options : options[i].key = key

\* The value the last option for the key set.
OwnValue(options, key) ==
    LET last == CHOOSE i \in DOMAIN options :
                   /\ options[i].key = key
                   /\ \A j \in DOMAIN options : options[j].key = key => j <= i
    IN  options[last].value

Inherits(options) == ~Defines(options, disableInheritance)

\* The class c and its ancestors, nearest first.
RECURSIVE ClassChain(_, _)
ClassChain(cls, c) ==
    IF c = NoClass THEN <<>> ELSE <<c>> \o ClassChain(cls, cls[c].parent)

\* The value of key for the class c by the rule of inheritance: that of the
\* nearest class on c's chain that defines key, if every class before it on
\* the chain was built to inherit; nothing otherwise.
ResolvedValue(c, key) ==
    LET chain == ClassChain(classes, c)
        reach == {n \in DOMAIN chain :
                     /\ Defines(built[chain[n]], key)
                     /\ \A m \in 1..(n - 1) :
                           /\ Inherits(built[chain[m]])
                           /\ ~Defines(built[chain[m]], key)}
    IN  IF reach = {} THEN Nil
        ELSE OwnValue(built[chain[CHOOSE n \in reach : TRUE]], key)

\* C7: for an error made by a class C that was built without
\* DisableInheritance, and with no options of its own, GetData(err, K) is
\* C's own value when C defines K, whatever its ancestors define; the value
\* of the nearest ancestor that defines K when C does not and every class
\* between C and that ancestor was built to inherit and does not define K;
\* and nil when neither C nor any ancestor defines K.
C7_ClassDataIsInherited ==
    (/\ ret.op = "GetData" /\ IsError(ret.err)
     /\ ~errs[ret.err].hasData
     /\ Inherits(built[errs[ret.err].class])) =>
        LET C == errs[ret.err].class
            K == ret.key
            chain == ClassChain(classes, C)
        IN  /\ Defines(built[C], K) => ret.val = OwnValue(built[C], K)
            /\ \A n \in 2..Len(chain) :
                  (/\ Defines(built[chain[n]], K)
                   /\ \A m \in 1..(n - 1) :
                         /\ Inherits(built[chain[m]])
                         /\ ~Defines(built[chain[m]], K)) =>
                     ret.val = OwnValue(built[chain[n]], K)
            /\ (\A n \in DOMAIN chain : ~Defines(built[chain[n]], K)) =>
                  ret.val = Nil

\* GetData returned, for an error of a class built with no options whose
\* parent was built with none either, the value the parent's parent set
\* under a key of the program's.
C7_Witness ==
    /\ ret.op = "GetData" /\ IsError(ret.err) /\ ret.key \in UserKeys
    /\ ret.val = "b"
    /\ LET C == errs[ret.err].class
           B == classes[C].parent
           A == classes[B].parent
       IN  /\ built[C] = <<>> /\ built[B] = <<>>
           /\ A \in UserClasses /\ Defines(built[A], ret.key)

\* ------------------------------------------------------------------ C8
\* C8: for an *Error made with options of its own, GetData(err, K) is the
\* value the last of them for K set, if one set K, whatever the class
\* defines; else nil if DisableInheritance is among them; else the value of
\* K for the error's class.
C8_InstanceDataComesFirst ==
    (/\ ret.op = "GetData" /\ IsError(ret.err)
     /\ given[ret.err] # <<>>) =>
        LET options == given[ret.err]
            K == ret.key
        IN  ret.val =
               IF Defines(options, K) THEN OwnValue(options, K)
               ELSE IF ~Inherits(options) THEN Nil
               ELSE ResolvedValue(errs[ret.err].class, K)

\* GetData returned false under the stack-capture key for an error of a
\* class that sets it true, made with the option NoCaptureStack.
C8_Witness ==
    /\ ret.op = "GetData" /\ IsError(ret.err) /\ ret.key = captureStack
    /\ errs[ret.err].class = HierarchicalError
    /\ given[ret.err] = <<NoCaptureStack>>
    /\ ret.val = "false"

\* ------------------------------------------------------------------ C9
\* C9: Record(err) and RecordBefore(err, depth) on an *Error return err and
\* put exactly one frame after the frames its exits held, which stay as they
\* were, and change nothing else; on a foreign value they return it and
\* change nothing; on nil they return nil. After every step each *Error has
\* as many exits as there were calls of Record on it.
C9_RecordAppendsOneFrame ==
    [][ LET err == ret'.err
        IN  /\ (\E stk \in Stacks :
                   \/ Record(err, stk)
                   \/ \E depth \in 0..1 : RecordBefore(err, depth, stk)) =>
                  /\ ret'.res = err
                  /\ IF IsError(err)
                     THEN /\ Len(errs') = Len(errs)
                          /\ Len(errs'[err].exits) = Len(errs[err].exits) + 1
                          /\ SubSeq(errs'[err].exits, 1, Len(errs[err].exits))
                                = errs[err].exits
                          /\ [errs'[err] EXCEPT !.exits = errs[err].exits]
                                = errs[err]
                          /\ \A i \in DOMAIN errs :
                                i # err => errs'[i] = errs[i]
                          /\ recs'[err] = recs[err] + 1
                     ELSE errs' = errs /\ recs' = recs
            /\ \A i \in DOMAIN errs' : Len(errs'[i].exits) = recs'[i]
      ]_vars

\* Record returned the *Error it was given, which now holds two frames,
\* the one of the first call before the one of the second.
C9_Witness ==
    /\ ret.op \in {"Record", "RecordBefore"} /\ IsError(ret.err)
    /\ ret.res = ret.err
    /\ recs[ret.err] = 2
    /\ errs[ret.err].exits = <<1, 2>>

\* ----------------------------------------------------------------- C10
\* C10: X.Contains(nil) is false for every class X, SystemError too; for a
\* foreign value f, X.Contains(f) is true iff X is the class the classifier
\* gives f or an ancestor of it, so SystemError.Contains(f) is true.
C10_ContainsNilAndForeign ==
    ret.op = "Contains" =>
       /\ ret.err = NilErr => ~ret.ok
       /\ IsForeign(ret.err) =>
             /\ ret.ok = (ret.cls \in AncestorsOrSelf(classes,
                                         findSystemErrorClass(ret.err)))
             /\ ret.cls = SystemError => ret.ok

\* IOError.Contains(io.EOF) was asked and is true: the classifier gives
\* io.EOF the class EOF, a child of IOError.
C10_Witness ==
    /\ ret.op = "Contains" /\ ret.cls = IOError /\ ret.err = IoEOF /\ ret.ok

\* ----------------------------------------------------------------- C11
\* The chain of wrapped failures from err down: err, what err holds, what
\* that holds, ..., ending with the first value that is no *Error.
RECURSIVE WrapChain(_, _)
WrapChain(es, err) ==
    IF IsError(err) THEN <<err>> \o WrapChain(es, es[err].err) ELSE <<err>>

\* The class of a member of a chain: that of an *Error, what the classifier
\* gives a foreign value, none for nil.
ClassOf(es, err) ==
    IF IsError(err) THEN es[err].class
    ELSE IF IsForeign(err) THEN findSystemErrorClass(err)
    ELSE NoClass

\* C11: for an *Error e, X.Contains(e) without IncludeWrapped is true iff
\* the class of e is X or descends from X; with IncludeWrapped it is true
\* iff that holds of the class of some member of the chain of wrapped
\* failures from e down, the foreign value at its end taking the class the
\* classifier gives it. Every *Error holds a value older than itself, so
\* every chain is finite and the recursion ends.
C11_ContainsIncludeWrapped ==
    /\ \A i \in DOMAIN errs : errs[i].err < i
    /\ (ret.op = "Contains" /\ IsError(ret.err)) =>
          LET chain == WrapChain(errs, ret.err)
          IN  ret.ok =
                 IF ret.key = IncludeWrapped
                 THEN \E n \in DOMAIN chain :
                         /\ ClassOf(errs, chain[n]) # NoClass
                         /\ ret.cls \in AncestorsOrSelf(classes,
                                           ClassOf(errs, chain[n]))
                 ELSE OfClass(ret.err, ret.cls)

\* EOF.Contains(e, IncludeWrapped) was asked of an *Error that holds another
\* *Error that holds io.EOF, neither of a class below EOF, and is true.
C11_Witness ==
    /\ ret.op = "Contains" /\ ret.key = IncludeWrapped /\ ret.cls = EOF
    /\ IsError(ret.err) /\ IsError(errs[ret.err].err)
    /\ errs[errs[ret.err].err].err = IoEOF
    /\ ret.ok

\* ----------------------------------------------------------------- C12
\* The sentinels of package io and the class of each, and the dynamic types
\* the classifier's type switch lists.
SentinelClass ==
    [n \in {"io.EOF", "io.ErrUnexpectedEOF", "io.ErrClosedPipe",
            "io.ErrNoProgress", "io.ErrShortBuffer", "io.ErrShortWrite"} |->
        CASE n = "io.EOF" -> EOF
          [] n = "io.ErrUnexpectedEOF" -> UnexpectedEOFError
          [] n = "io.ErrClosedPipe" -> ClosedPipeError
          [] n = "io.ErrNoProgress" -> NoProgressError
          [] n = "io.ErrShortBuffer" -> ShortBufferError
          [] n = "io.ErrShortWrite" -> ShortWriteError]

ListedTypes ==
    {"*os.SyscallError", "syscall.Errno", "net.UnknownNetworkError",
     "*net.AddrError", "net.InvalidAddrError", "*net.OpError",
     "*net.ParseError", "*net.DNSError", "*net.DNSConfigError"}

\* C12: the classifier gives io.EOF the class EOF, which descends from
\* IOError and from SystemError; a sentinel gets the class of the sentinel
\* whatever its type is; a value that is no sentinel, of no listed type and
\* no net.Error gets SystemError; and every class the classifier gives
\* descends from SystemError or is it, and HierarchicalError does not contain
\* the value.
C12_ClassifierTable ==
    (ret.op = "GetClass" /\ IsForeign(ret.err)) =>
        LET v == ForeignValues[-ret.err]
        IN  /\ ret.err = IoEOF =>
                  /\ ret.cls = EOF
                  /\ {IOError, SystemError} \subseteq
                        AncestorsOrSelf(classes, ret.cls)
            /\ v.name \in DOMAIN SentinelClass =>
                  ret.cls = SentinelClass[v.name]
            /\ (/\ v.name \notin DOMAIN SentinelClass
                /\ v.type \notin ListedTypes
                /\ ~v.net) => ret.cls = SystemError
            /\ SystemError \in AncestorsOrSelf(classes, ret.cls)
            /\ HierarchicalError \notin AncestorsOrSelf(classes, ret.cls)
            /\ ~Contains(classes, errs, HierarchicalError, ret.err, <<>>)

\* GetClass(io.EOF) was asked and is EOF.
C12_Witness ==
    /\ ret.op = "GetClass" /\ ret.err = IoEOF /\ ret.cls = EOF

\* ----------------------------------------------------------------- C13
\* C13: the *Error a wrap call constructs holds exactly the err the call was
\* given: WrappedErr of it is that err, at once and after every later step;
\* and WrappedErr of a foreign value is the value.
C13_WrapKeepsTheFailure ==
    [][ /\ (ret'.op \in {"Wrap", "WrapUnless"} /\ Len(errs') > Len(errs)) =>
              /\ ret'.res = Len(errs')
              /\ ret'.err # NilErr
              /\ WrappedErr(errs', ret'.res) = ret'.err
        /\ \A i \in DOMAIN errs : WrappedErr(errs', i) = WrappedErr(errs, i)
        /\ (ret'.op = "WrappedErr" /\ ~IsError(ret'.err)) =>
              ret'.res = ret'.err
      ]_vars

\* WrappedErr was asked of an *Error made by wrapping another *Error, and
\* returned that other *Error.
C13_Witness ==
    /\ ret.op = "WrappedErr" /\ IsError(ret.err) /\ IsError(ret.res)
    /\ ret.res # ret.err

\* ----------------------------------------------------------------- C14
\* The flag under key for an *Error of the class made with the options, as
\* the claims state it: the instance's option if one set it, else the value
\* the class resolves it to, else false.
FlagAsStated(options, class, key) ==
    boolWrapper(IF Defines(options, key) THEN OwnValue(options, key)
                ELSE ResolvedValue(class, key), FALSE)

\* The flag as the code resolves it: an instance made with DisableInheritance
\* takes nothing from its class.
FlagResolved(options, class, key) ==
    boolWrapper(IF Defines(options, key) THEN OwnValue(options, key)
                ELSE IF ~Inherits(options) THEN Nil
                ELSE ResolvedValue(class, key), FALSE)

\* C14, as stated: a step writes to the log, once, iff it is a wrap call that
\* constructs an *Error whose log-on-creation flag (instance option if set,
\* else the class's value, else false) is true.
C14_AsStated ==
    [][ LET r == Len(errs')
        IN  IF /\ Len(errs') > Len(errs)
               /\ FlagAsStated(given'[r], errs'[r].class, logOnCreation)
            THEN logged' = Append(logged, r)
            ELSE logged' = logged
      ]_vars

\* C14, amended: the flag is the instance option if one set it, else false
\* if the instance was made with DisableInheritance, else the class's value,
\* else false. A step writes to the log iff it is a wrap call that constructs
\* an *Error whose flag is true, and then once; wrap calls that return nil or
\* their argument, and Record, Contains, GetData and Error, write nothing, so
\* no *Error is logged twice.
C14_LogsOnceAtCreation ==
    [][ LET r == Len(errs')
        IN  /\ IF /\ Len(errs') > Len(errs)
                  /\ FlagResolved(given'[r], errs'[r].class, logOnCreation)
               THEN logged' = Append(logged, r)
               ELSE logged' = logged
            /\ \A i, j \in DOMAIN logged' :
                  i # j => logged'[i] # logged'[j]
      ]_vars

\* An *Error of PanicError, a class that logs, was made with the option
\* DisableInheritance and was not logged, after another *Error was.
C14_Witness ==
    /\ ret.op = "NewWith" /\ IsError(ret.res)
    /\ errs[ret.res].class = PanicError
    /\ given[ret.res] = <<DisableInheritance>>
    /\ logged # <<>>
    /\ \A i \in DOMAIN logged : logged[i] # ret.res

\* ----------------------------------------------------------------- C15
\* The root of the class c: the end of its chain of parents.
RootOf(c) == LET chain == ClassChain(classes, c) IN chain[Len(chain)]

\* No class from c up to its root, the root aside, was built with an option
\* that sets the key or with DisableInheritance.
NoOverrides(c, key) ==
    LET chain == ClassChain(classes, c)
    IN  \A n \in 1..(Len(chain) - 1) :
           Inherits(built[chain[n]]) /\ ~Defines(built[chain[n]], key)

\* C15, as stated: an *Error has a captured stack iff its capture-stack flag
\* (instance option if set, else the class's value, else false) is true.
C15_AsStated ==
    \A r \in DOMAIN errs :
       (errs[r].stack # <<>>) =
          FlagAsStated(given[r], errs[r].class, captureStack)

\* C15, amended: an *Error has a captured stack iff its capture-stack flag is
\* true, the flag being the instance option if one set it, else false if the
\* instance was made with DisableInheritance, else the class's value, else
\* false. So an *Error made with no options of a class that descends from
\* HierarchicalError with no override has a stack, one of a class that
\* descends from SystemError with no override has none, and NoCaptureStack
\* on the instance, or on the class of an instance that does not set the
\* flag, suppresses it.
C15_StackIffFlag ==
    \A r \in DOMAIN errs :
       LET c == errs[r].class
       IN  /\ (errs[r].stack # <<>>) =
                 FlagResolved(given[r], c, captureStack)
           /\ (given[r] = <<>> /\ NoOverrides(c, captureStack)) =>
                 /\ RootOf(c) = HierarchicalError => errs[r].stack # <<>>
                 /\ RootOf(c) = SystemError => errs[r].stack = <<>>
           /\ (\E i \in DOMAIN given[r] : given[r][i] = NoCaptureStack) =>
                 errs[r].stack = <<>>
           /\ (/\ ~Defines(given[r], captureStack)
               /\ \E i \in DOMAIN built[c] : built[c][i] = NoCaptureStack) =>
                 errs[r].stack = <<>>

\* An *Error of a class that captures the stack was made with the option
\* DisableInheritance and holds no stack; another *Error holds one.
C15_Witness ==
    /\ ret.op = "NewWith" /\ IsError(ret.res)
    /\ given[ret.res] = <<DisableInheritance>>
    /\ boolWrapper(ResolvedValue(errs[ret.res].class, captureStack), FALSE)
    /\ errs[ret.res].stack = <<>>
    /\ \E i \in DOMAIN errs : errs[i].stack # <<>>

\* ------------------------------------------------------------------ C16
\* C16: whatever was added to an ErrorGroup, bounded or not, Finalize
\* returns nil when no non-nil error was added since the group was made or
\* emptied, and when exactly one was added (and so none was counted as
\* excess) it returns that very error: no new error is made.
C16_FinalizeNilOrTheSingleError ==
    [][(ret'.op = "Finalize" /\ ErrorGroupFinalize) =>
          /\ adds = <<>> => (ret'.res = NilErr /\ errs' = errs)
          /\ (Len(adds) = 1 /\ group.excess = 0) =>
                (ret'.res = adds[1] /\ errs' = errs)]_vars

\* Finalize has returned the one error added to a bounded group, an error
\* of this package.
C16_Witness ==
    /\ ret.op = "Finalize"
    /\ group.limit > 0
    /\ Len(adds) = 1
    /\ IsError(ret.res)
    /\ ret.res = adds[1]

\* ------------------------------------------------------------------ C17
\* The first n elements of a sequence, or all of it if it is shorter.
FirstN(seq, n) == SubSeq(seq, 1, IF Len(seq) < n THEN Len(seq) ELSE n)

\* A bounded group holds the first L errors added and has counted the rest.
C17_Retains ==
    group.limit > 0 =>
        /\ Len(group.Errors) <= group.limit
        /\ group.Errors = FirstN(adds, group.limit)
        /\ Len(group.Errors) + group.excess = Len(adds)

\* The texts of the retained errors, one a line, then the line that counts
\* the excess.
C17_Listed ==
    [i \in 1..Len(group.Errors) |-> ErrorError(classes, errs, group.Errors[i])]
    \o << <<"... and ", ToString(group.excess), " more.">> >>

\* The same lines as fmt prints them when they are its format string and it
\* has no operands.
C17_Printed ==
    [i \in DOMAIN C17_Listed |->
        [j \in DOMAIN C17_Listed[i] |->
            IF C17_Listed[i][j] = "%d" THEN "%!d(MISSING)"
            ELSE C17_Listed[i][j]]]

\* Finalize of a bounded group that counted an excess makes a new error of
\* the Error Group Error class.
C17_FinalizeExcess ==
    /\ ret'.op = "Finalize"
    /\ ErrorGroupFinalize
    /\ group.limit > 0
    /\ group.excess > 0

\* C17 as the claim states it: a bounded group retains the first L non-nil
\* errors in order and counts the rest, and Finalize of a group with excess
\* N > 0 returns an Error Group Error whose message is the texts of the
\* retained errors followed by '... and N more.'.
C17_AsStated ==
    [][/\ C17_Retains'
       /\ C17_FinalizeExcess =>
             /\ ret'.res = Len(errs) + 1
             /\ errs'[ret'.res].class = ErrorGroupError
             /\ text' = C17_Listed]_vars

\* C17, as the code has it: the retention and the counts as stated; the
\* message is what fmt prints of those lines taken as a format string, so
\* a verb in the text of a retained error is printed as a missing operand.
C17_BoundedGroupRetainsAndCounts ==
    [][/\ C17_Retains'
       /\ C17_FinalizeExcess =>
             /\ ret'.res = Len(errs) + 1
             /\ errs'[ret'.res].class = ErrorGroupError
             /\ text' = C17_Printed]_vars

\* The test's case: limit 1 with BAD, MAD and SAD has given BAD and then
\* '... and 2 more.'.
C17_Witness ==
    /\ ret.op = "Finalize"
    /\ IsError(ret.res)
    /\ errs[ret.res].class = ErrorGroupError
    /\ group.limit = 1
    /\ text = << <<"BAD">>, <<"... and ", "2", " more.">> >>

\* ------------------------------------------------------------------ C18
\* C18: for a LoggingErrorGroup named n, an Add of a non-nil error writes
\* one line for that failure to the log and an Add of nil writes none;
\* Finalize returns nil when no non-nil error was added since the last
\* Finalize, otherwise a new Error Group Error whose text is
\* 'n: F of T failed.', F the non-nil Adds and T all Adds since the last
\* Finalize; and Finalize leaves both counts of the group at zero.
C18_LoggingGroupLogsAndCounts ==
    [][/\ (ret'.op = "LoggingAdd" /\ LoggingErrorGroupAdd(ret'.err)) =>
             IF ret'.err = NilErr
             THEN groupLog' = groupLog /\ logged' = logged
             ELSE /\ Len(groupLog') = Len(groupLog) + 1
                  /\ SubSeq(groupLog', 1, Len(groupLog)) = groupLog
                  /\ groupLog'[Len(groupLog')] =
                        <<lgroup.name, ": ">>
                        \o ErrorError(classes, errs, ret'.err)
       /\ (ret'.op = "LoggingFinalize" /\ LoggingErrorGroupFinalize) =>
             /\ groupLog' = groupLog
             /\ lgroup'.total = 0
             /\ lgroup'.failed = 0
             /\ IF lcount.failed = 0
                THEN ret'.res = NilErr /\ errs' = errs
                ELSE /\ ret'.res = Len(errs) + 1
                     /\ errs'[ret'.res].class = ErrorGroupError
                     /\ text' = << <<lgroup.name, ": ",
                                     ToString(lcount.failed), " of ",
                                     ToString(lcount.total), " failed.">> >>]_vars

\* The test's case: BAD and nil were added to the group foo, the log holds
\* 'foo: BAD' and Finalize has returned 'foo: 1 of 2 failed.'.
C18_Witness ==
    /\ ret.op = "LoggingFinalize"
    /\ IsError(ret.res)
    /\ errs[ret.res].class = ErrorGroupError
    /\ text = << <<"foo", ": ", "1", " of ", "2", " failed.">> >>
    /\ groupLog = << <<"foo", ": ", "BAD">> >>
    /\ lgroup.total = 0

\* ------------------------------------------------------------------ C19
\* C19: when the deferred CatchPanic(&err) runs while a panic is unwinding,
\* with an error value or with a value that is no error, the panic is
\* stopped and err is set to a non-nil error that PanicError contains; when
\* no panic is unwinding, err is left as it was.
C19_CatchPanicStoresPanicError ==
    [][(ret'.op = "CatchPanic" /\ CatchPanic) =>
          IF panic.is = "none"
          THEN slot' = slot /\ errs' = errs
          ELSE /\ panic'.is = "none"
               /\ slot' # NilErr
               /\ IsError(slot')
               /\ OfClassIn(errs', slot', PanicError)]_vars

\* CatchPanic has caught a panic whose value was an error of this package
\* that was no Panic Error, and err holds a Panic Error that wraps it.
C19_Witness ==
    /\ ret.op = "CatchPanic"
    /\ IsError(slot)
    /\ slot = ret.res
    /\ errs[slot].class = PanicError
    /\ IsError(errs[slot].err)
    /\ errs[errs[slot].err].class = HierarchicalError

\* ------------------------------------------------------------------ C20
\* C20 as the claim states it: when threads call Record at the same time on
\* one error, then in every interleaving, once all calls have returned, the
\* exits of the error hold one frame for each Record call made on it.
C20_AsStated ==
    (\A t \in 1..MaxThreads : rpc[t] = "idle") =>
        \A ptr \in 1..Len(errs) : Len(errs[ptr].exits) = recs[ptr]

\* C20, what the code gives: a Record call that no other thread's store on
\* the same error falls into appends its frame to the exits it found, and
\* the exits of an error never hold more frames than Record calls returned.
C20_UndisturbedRecordAppends ==
    [][\A t \in 1..MaxThreads :
          (rpc[t] = "append" /\ rpc'[t] = "idle") =>
              LET ptr == rlocal[t].err
              IN  /\ Len(errs'[ptr].exits) <= recs'[ptr]
                  /\ errs[ptr].exits = rlocal[t].exits =>
                        errs'[ptr].exits =
                            Append(errs[ptr].exits, rlocal[t].frame)]_vars

\* Two threads are inside Record on the same error, both having read the
\* same exits.
C20_Witness ==
    \E t, u \in 1..MaxThreads :
        /\ t # u
        /\ rpc[t] = "append"
        /\ rpc[u] = "append"
        /\ rlocal[t].err = rlocal[u].err
        /\ rlocal[t].exits = rlocal[u].exits

\* ------------------------------------------------------------------ C21
\* The ids GenSym's adds have produced so far in the process, read off the
\* counter and the number of times it has wrapped: the counter started at
\* zero and has gone up by one with every call.
IssuedBefore(id) ==
    IF wraps = 0 THEN id >= 1 /\ id <= lastId
    ELSE IF wraps = 1 /\ lastId < 0 THEN id >= 1 \/ id <= lastId
    ELSE TRUE

\* C21 as the claim states it: however many GenSym calls the process has
\* made, the id a call gets was never issued before and is greater than
\* the id the call before it got.
C21_AsStated ==
    [][\A t \in 1..MaxThreads :
          GenSymAdd(t) => (~IssuedBefore(lastId') /\ lastId' > lastId)]_vars

\* C21, what the counter gives: as long as it has not passed the largest
\* value of its type, the id a call gets was never issued before and is
\* greater than the id of the call before it; the call after the largest
\* value gets the smallest value of the type, and a round of the type after
\* its first call the counter issues the ids it issued first.
C21_FreshUntilTheCounterWraps ==
    [][\A t \in 1..MaxThreads :
          GenSymAdd(t) =>
             /\ (wraps = 0 /\ lastId < MaxId) =>
                   (~IssuedBefore(lastId') /\ lastId' > lastId)
             /\ lastId = MaxId => lastId' = MinId
             /\ (wraps = 1 /\ lastId >= 0) => IssuedBefore(lastId')]_vars

\* A call has got, for the second time in the process, the id the package
\* holds as its logOnCreation key.
C21_Witness ==
    /\ wraps = 1
    /\ \E t \in 1..MaxThreads : pc[t] = "added" /\ reg[t] = logOnCreation

\* ------------------------------------------------------------------ C22
\* The keys the options of a list set, the marker apart.
OwnKeys(options) ==
    {options[i].key : i \in DOMAIN options} \ {disableInheritance}

\* C22: a class built with DisableInheritance holds exactly the entries its
\* own options set, the marker apart, and none of its parent's; and no
\* class, of the package or of the program, holds the marker in its data.
C22_NoInheritanceNoMarker ==
    \A c \in 1..Len(classes) :
        /\ disableInheritance \notin DOMAIN classes[c].data
        /\ (c \in UserClasses /\ ~Inherits(built[c])) =>
              /\ DOMAIN classes[c].data = OwnKeys(built[c])
              /\ \A k \in OwnKeys(built[c]) :
                    classes[c].data[k] = OwnValue(built[c], k)

\* A class was built with DisableInheritance and a value of its own under
\* a key, below a class of the program that holds another value under that
\* key and that has inherited captureStack: it holds its own entry only.
C22_Witness ==
    \E c \in UserClasses :
        LET p == classes[c].parent
        IN  /\ ~Inherits(built[c])
            /\ p \in UserClasses
            /\ captureStack \in DOMAIN classes[p].data
            /\ \E k \in UserKeys :
                  /\ DOMAIN classes[c].data = {k}
                  /\ classes[c].data[k] = "b"
                  /\ MapGet(classes[p].data, k) = "a"

\* ------------------------------------------------------------------ C23
\* The operations C23 is about, by the names their calls are recorded under.
FrameOps ==
    {"Wrap", "WrapUnless", "New", "NewWith", "Contains", "GetData", "Record"}

\* C23: a call of Wrap, WrapUnless, New, NewWith, Contains, GetData or
\* Record changes no class; it changes no error that existed before it but
\* for the exits of the error Record was given; and the error a wrap call
\* makes with options holds, as its own data, what the options set, while
\* the error it was given is as before.
C23_OnlyExitsChange ==
    [][ret'.op \in FrameOps =>
          /\ classes' = classes
          /\ \A i \in DOMAIN errs :
                /\ i \in DOMAIN errs'
                /\ errs'[i].err = errs[i].err
                /\ errs'[i].class = errs[i].class
                /\ errs'[i].stack = errs[i].stack
                /\ errs'[i].hasData = errs[i].hasData
                /\ errs'[i].data = errs[i].data
                /\ (ret'.op # "Record" \/ ret'.err # i) =>
                      errs'[i].exits = errs[i].exits
          /\ Len(errs') > Len(errs) =>
                LET new == errs'[Len(errs')]
                    options == given'[Len(errs')]
                IN  /\ Len(errs') = Len(errs) + 1
                    /\ new.hasData = (options # <<>>)
                    /\ DOMAIN new.data =
                          {options[i].key : i \in DOMAIN options}
                    /\ \A k \in DOMAIN new.data :
                          new.data[k] = OwnValue(options, k)]_vars

\* Wrap was given options and an *Error of its class that has exits
\* recorded and no data of its own, and has made a new *Error that holds
\* the options' entry; the *Error it was given still has no data.
C23_Witness ==
    /\ ret.op = "Wrap" /\ IsError(ret.err) /\ IsError(ret.res)
    /\ ret.res # ret.err
    /\ OfClass(ret.err, ret.cls)
    /\ Len(errs[ret.err].exits) > 0
    /\ ~errs[ret.err].hasData
    /\ errs[ret.res].hasData
    /\ \E k \in UserKeys : MapGet(errs[ret.res].data, k) = "a"

\* ------------------------------------------------------------------ C24
\* C24: X.Wrap(err, options...) of a non-nil err returns an *Error that X
\* contains; X.WrapUnless(err, excluded...) of a non-nil err returns an
\* *Error that X or one of the excluded classes contains; and every *Error
\* has a class and holds a failure that is not nil.
C24_WrapPostcondition ==
    [][ LET e == ret'.cls
            err == ret'.err
            r == ret'.res
        IN  /\ (ret'.op = "Wrap" /\ err # NilErr) =>
                  /\ IsError(r)
                  /\ r \in DOMAIN errs'
                  /\ Contains(classes', errs', e, r, <<>>)
                  /\ OfClassIn(errs', r, e)
            /\ \A classList \in ClassLists :
                  (/\ ret'.op = "WrapUnless" /\ err # NilErr
                   /\ WrapUnless(e, err, classList)) =>
                     /\ IsError(r)
                     /\ r \in DOMAIN errs'
                     /\ \/ Contains(classes', errs', e, r, <<>>)
                        \/ \E i \in DOMAIN classList :
                              Contains(classes', errs', classList[i], r, <<>>)
                     /\ \/ OfClassIn(errs', r, e)
                        \/ \E i \in DOMAIN classList :
                              OfClassIn(errs', r, classList[i])
            /\ \A i \in DOMAIN errs' :
                  /\ errs'[i].class \in DOMAIN classes'
                  /\ errs'[i].err # NilErr
      ]_vars

\* WrapUnless has returned the *Error it was given, which one of the
\* excluded classes contains and the class it was called on does not.
C24_Witness ==
    /\ ret.op = "WrapUnless" /\ IsError(ret.res) /\ ret.res = ret.err
    /\ ~OfClass(ret.res, ret.cls)
    /\ OfClass(ret.res, PanicError)

\* ------------------------------------------------------------------ C25
\* The keys classes and errors hold values under.
DataKeys == {logOnCreation, captureStack} \cup UserKeys

\* C25: a class built without DisableInheritance has, under every key its
\* own options do not set, what its parent has under the key, hoisted
\* entries included; so when B was built with DisableInheritance below A,
\* and neither B nor its child C sets a key A defines, C has nothing under
\* the key and GetData on an error of class C without data of its own
\* returns nil for it.
C25_InheritsFromParentOnly ==
    /\ \A C \in UserClasses, K \in DataKeys :
          LET B == classes[C].parent
          IN  /\ (Inherits(built[C]) /\ ~Defines(built[C], K)) =>
                    MapGet(classes[C].data, K) = MapGet(classes[B].data, K)
              /\ (/\ ~Defines(built[C], K)
                  /\ ~Inherits(built[B]) /\ ~Defines(built[B], K)
                  /\ B \in UserClasses
                  /\ Defines(built[classes[B].parent], K)) =>
                    MapGet(classes[C].data, K) = Nil
    /\ (ret.op = "GetData" /\ IsError(ret.err) /\ ~errs[ret.err].hasData) =>
          LET C == errs[ret.err].class
              B == classes[C].parent
              K == ret.key
          IN  (/\ C \in UserClasses /\ B \in UserClasses
               /\ ~Defines(built[C], K)
               /\ ~Inherits(built[B]) /\ ~Defines(built[B], K)
               /\ Defines(built[classes[B].parent], K)) =>
                  ret.val = Nil

\* GetData has returned nil for a key of the program's on an error of a
\* class built with no options, whose parent was built with
\* DisableInheritance alone below a class of the program that sets the key.
C25_Witness ==
    /\ ret.op = "GetData" /\ IsError(ret.err) /\ ret.key \in UserKeys
    /\ ret.val = Nil
    /\ LET C == errs[ret.err].class
           B == classes[C].parent
           A == classes[B].parent
       IN  /\ C \in UserClasses /\ B \in UserClasses /\ A \in UserClasses
           /\ built[C] = <<>>
           /\ built[B] = <<DisableInheritance>>
           /\ Defines(built[A], ret.key)

\* ------------------------------------------------------------------ C26
\* C26: X.WrapUnless(f, excluded...) of a foreign failure f returns a new
\* *Error of class X that holds f, whatever the excluded classes are, also
\* when one of them contains f by the classifier.
C26_WrapUnlessWrapsForeign ==
    [][ LET e == ret'.cls
            f == ret'.err
        IN  \A classList \in ClassLists :
              (/\ ret'.op = "WrapUnless" /\ IsForeign(f)
               /\ WrapUnless(e, f, classList)) =>
                 /\ Len(errs') = Len(errs) + 1
                 /\ ret'.res = Len(errs')
                 /\ errs'[ret'.res].class = e
                 /\ errs'[ret'.res].err = f
                 /\ \A i \in DOMAIN errs : errs'[i] = errs[i]
      ]_vars

\* WrapUnless of a class that is no System Error has wrapped a foreign
\* failure that SystemError, one of the classes it may be given to exclude,
\* contains.
C26_Witness ==
    /\ ret.op = "WrapUnless" /\ IsForeign(ret.err) /\ IsError(ret.res)
    /\ errs[ret.res].class = ret.cls
    /\ errs[ret.res].err = ret.err
    /\ ~Is(classes, ret.cls, SystemError)
    /\ \E classList \in ClassLists :
          \E i \in DOMAIN classList :
              Contains(classes, errs, classList[i], ret.err, <<>>)

\* ------------------------------------------------------------------ C27
\* C27: a Finalize of a group that retains two or more errors, or has
\* counted an excess, returns a new Error Group Error and leaves the group
\* empty, with no excess and its limit; a Finalize that returns nil or the
\* single retained error leaves the group as it was. So a Finalize that
\* follows a Finalize at once returns nil after a combined error and the
\* same result again otherwise.
C27_FinalizeResetsWhenCombined ==
    [][(ret'.op = "Finalize" /\ ErrorGroupFinalize) =>
          /\ IF Len(group.Errors) >= 2 \/ group.excess > 0
             THEN /\ ret'.res = Len(errs) + 1
                  /\ Len(errs') = Len(errs) + 1
                  /\ errs'[ret'.res].class = ErrorGroupError
                  /\ group'.Errors = <<>>
                  /\ group'.excess = 0
                  /\ group'.limit = group.limit
             ELSE /\ group' = group
                  /\ errs' = errs
                  /\ ret'.res = IF group.Errors = <<>> THEN NilErr
                                ELSE group.Errors[1]
          /\ ret.op = "Finalize" =>
                IF ret.res # NilErr /\ group.Errors # <<ret.res>>
                THEN ret'.res = NilErr
                ELSE ret'.res = ret.res]_vars

\* Finalize has returned nil on a bounded group that is empty after a
\* Finalize that returned BAD and '... and 1 more.' as one error.
C27_Witness ==
    /\ ret.op = "Finalize"
    /\ ret.res = NilErr
    /\ group.Errors = <<>>
    /\ group.limit > 0
    /\ Len(errs) = 1
    /\ text = << <<"BAD">>, <<"... and ", "1", " more.">> >>

====
